---- MODULE Spec2Model ----
(***************************************************************************)
(* Model of scripts/analyze-terraform-plan.py: one run of main(), from     *)
(* reading the environment to the process exit code.  A Python str is a    *)
(* sequence of code points; a Python dict is a function whose DOMAIN is    *)
(* the set of keys, so `k in d` is `k \in DOMAIN d` and `not d` is         *)
(* `DOMAIN d = {}`.  An exception that leaves main() ends the process      *)
(* with exit status 1 (the interpreter's behaviour at line 215).           *)
(***************************************************************************)
EXTENDS Integers, Sequences, FiniteSets, TLC

(***************************************************************************)
(* String literals of the source, as code points.                          *)
(***************************************************************************)
\* line 111: the failure marker returned by format_analysis_output
\*   "<non-ASCII> Failed to get analysis from Azure OpenAI"
FailureMarker ==
    <<8218, 249, 229, 32, 70, 97, 105, 108, 101, 100, 32, 116, 111, 32, 103, 101, 116, 32,
    97, 110, 97, 108, 121, 115, 105, 115, 32, 102, 114, 111, 109, 32, 65, 122, 117, 114,
    101, 32, 79, 112, 101, 110, 65, 73>>

\* lines 116-118: the f-string text before {analysis_text}
\*   "\n##[section]<non-ASCII> AI-Powered Terraform Plan Analysis\n\n"
FormatPrefix ==
    <<10, 35, 35, 91, 115, 101, 99, 116, 105, 111, 110, 93, 63743, 252, 167, 241, 32, 65,
    73, 45, 80, 111, 119, 101, 114, 101, 100, 32, 84, 101, 114, 114, 97, 102, 111, 114,
    109, 32, 80, 108, 97, 110, 32, 65, 110, 97, 108, 121, 115, 105, 115, 10, 10>>

\* lines 119-124: the f-string text after {analysis_text}
\*   "\n\n---\n<non-ASCII> Analysis completed using Azure OpenAI Service\n<non-ASCII>  Please review recommendations carefully before deployment\n"
FormatSuffix ==
    <<10, 10, 45, 45, 45, 10, 63743, 252, 237, 176, 32, 65, 110, 97, 108, 121, 115, 105,
    115, 32, 99, 111, 109, 112, 108, 101, 116, 101, 100, 32, 117, 115, 105, 110, 103, 32,
    65, 122, 117, 114, 101, 32, 79, 112, 101, 110, 65, 73, 32, 83, 101, 114, 118, 105, 99,
    101, 10, 8218, 246, 8224, 212, 8719, 232, 32, 32, 80, 108, 101, 97, 115, 101, 32, 114,
    101, 118, 105, 101, 119, 32, 114, 101, 99, 111, 109, 109, 101, 110, 100, 97, 116, 105,
    111, 110, 115, 32, 99, 97, 114, 101, 102, 117, 108, 108, 121, 32, 98, 101, 102, 111,
    114, 101, 32, 100, 101, 112, 108, 111, 121, 109, 101, 110, 116, 10>>

\* line 132: the banner substring save_analysis_to_file removes
\*   "##[section]<non-ASCII> AI-Powered Terraform Plan Analysis\n\n"
SaveBanner ==
    <<35, 35, 91, 115, 101, 99, 116, 105, 111, 110, 93, 63743, 252, 167, 241, 32, 65, 73,
    45, 80, 111, 119, 101, 114, 101, 100, 32, 84, 101, 114, 114, 97, 102, 111, 114, 109,
    32, 80, 108, 97, 110, 32, 65, 110, 97, 108, 121, 115, 105, 115, 10, 10>>

\* line 133: the footer substring save_analysis_to_file removes
\*   "\n\n---\n<non-ASCII> Analysis completed using Azure OpenAI Service\n<non-ASCII>  Please review recommendations carefully before deployment\n"
SaveFooter ==
    <<10, 10, 45, 45, 45, 10, 63743, 252, 237, 176, 32, 65, 110, 97, 108, 121, 115, 105,
    115, 32, 99, 111, 109, 112, 108, 101, 116, 101, 100, 32, 117, 115, 105, 110, 103, 32,
    65, 122, 117, 114, 101, 32, 79, 112, 101, 110, 65, 73, 32, 83, 101, 114, 118, 105, 99,
    101, 10, 8218, 246, 8224, 212, 8719, 232, 32, 32, 80, 108, 101, 97, 115, 101, 32, 114,
    101, 118, 105, 101, 119, 32, 114, 101, 99, 111, 109, 109, 101, 110, 100, 97, 116, 105,
    111, 110, 115, 32, 99, 97, 114, 101, 102, 117, 108, 108, 121, 32, 98, 101, 102, 111,
    114, 101, 32, 100, 101, 112, 108, 111, 121, 109, 101, 110, 116, 10>>

\* line 136: header text before the date
\*   "Terraform Plan Analysis\n\nGenerated: "
HeaderPrefix ==
    <<84, 101, 114, 114, 97, 102, 111, 114, 109, 32, 80, 108, 97, 110, 32, 65, 110, 97,
    108, 121, 115, 105, 115, 10, 10, 71, 101, 110, 101, 114, 97, 116, 101, 100, 58, 32>>

\* line 136: header text after the date
\*   "\n\n"
HeaderSuffix ==
    <<10, 10>>

\* line 140: the truncation notice
\*   "\n\n[Content truncated to fit 4000 character limit]"
TruncationNotice ==
    <<10, 10, 91, 67, 111, 110, 116, 101, 110, 116, 32, 116, 114, 117, 110, 99, 97, 116,
    101, 100, 32, 116, 111, 32, 102, 105, 116, 32, 52, 48, 48, 48, 32, 99, 104, 97, 114,
    97, 99, 116, 101, 114, 32, 108, 105, 109, 105, 116, 93>>

\* line 187: the plan truncation marker
\*   "\n... (truncated for analysis)"
PlanTruncationMarker ==
    <<10, 46, 46, 46, 32, 40, 116, 114, 117, 110, 99, 97, 116, 101, 100, 32, 102, 111, 114,
    32, 97, 110, 97, 108, 121, 115, 105, 115, 41>>

\* line 170: the scheme prefix
\*   "https://"
HttpsScheme ==
    <<104, 116, 116, 112, 115, 58, 47, 47>>

\* line 207: keyword
\*   "critical"
KwCritical ==
    <<99, 114, 105, 116, 105, 99, 97, 108>>

\* line 207: keyword
\*   "severe"
KwSevere ==
    <<115, 101, 118, 101, 114, 101>>

\* line 207: keyword
\*   "high risk"
KwHighRisk ==
    <<104, 105, 103, 104, 32, 114, 105, 115, 107>>

\* line 207: keyword
\*   "security vulnerability"
KwSecurityVulnerability ==
    <<115, 101, 99, 117, 114, 105, 116, 121, 32, 118, 117, 108, 110, 101, 114, 97, 98, 105,
    108, 105, 116, 121>>

\* line 207: keyword
\*   "exposed"
KwExposed ==
    <<101, 120, 112, 111, 115, 101, 100>>

\* sample text
\*   "Security Vulnerability in NSG rule"
TxtSecVuln ==
    <<83, 101, 99, 117, 114, 105, 116, 121, 32, 86, 117, 108, 110, 101, 114, 97, 98, 105,
    108, 105, 116, 121, 32, 105, 110, 32, 78, 83, 71, 32, 114, 117, 108, 101>>

\* sample text
\*   "CRITICAL: open port"
TxtCriticalUpper ==
    <<67, 82, 73, 84, 73, 67, 65, 76, 58, 32, 111, 112, 101, 110, 32, 112, 111, 114, 116>>

\* sample text
\*   "Severe cost overrun"
TxtSevere ==
    <<83, 101, 118, 101, 114, 101, 32, 99, 111, 115, 116, 32, 111, 118, 101, 114, 114, 117,
    110>>

\* sample text
\*   "this is a High Risk change"
TxtHighRisk ==
    <<116, 104, 105, 115, 32, 105, 115, 32, 97, 32, 72, 105, 103, 104, 32, 82, 105, 115,
    107, 32, 99, 104, 97, 110, 103, 101>>

\* sample text
\*   "storage key EXPOSED"
TxtExposed ==
    <<115, 116, 111, 114, 97, 103, 101, 32, 107, 101, 121, 32, 69, 88, 80, 79, 83, 69, 68>>

\* sample text
\*   "No issues found. Looks fine."
TxtClean ==
    <<78, 111, 32, 105, 115, 115, 117, 101, 115, 32, 102, 111, 117, 110, 100, 46, 32, 76,
    111, 111, 107, 115, 32, 102, 105, 110, 101, 46>>

\* sample text
\*   "high  risk of exposure, critic al, sever"
TxtNearMiss ==
    <<104, 105, 103, 104, 32, 32, 114, 105, 115, 107, 32, 111, 102, 32, 101, 120, 112, 111,
    115, 117, 114, 101, 44, 32, 99, 114, 105, 116, 105, 99, 32, 97, 108, 44, 32, 115, 101,
    118, 101, 114>>

\* sample text
\*   "ok ##[section]<non-ASCII> AI-Powered Terraform Plan Analysis\n\nend"
TxtWithBanner ==
    <<111, 107, 32, 35, 35, 91, 115, 101, 99, 116, 105, 111, 110, 93, 63743, 252, 167, 241,
    32, 65, 73, 45, 80, 111, 119, 101, 114, 101, 100, 32, 84, 101, 114, 114, 97, 102, 111,
    114, 109, 32, 80, 108, 97, 110, 32, 65, 110, 97, 108, 121, 115, 105, 115, 10, 10, 101,
    110, 100>>

\* sample text
\*   "tf.openai.azure.com"
HostBare ==
    <<116, 102, 46, 111, 112, 101, 110, 97, 105, 46, 97, 122, 117, 114, 101, 46, 99, 111,
    109>>

\* sample text
\*   "https://tf.openai.azure.com"
HostHttps ==
    <<104, 116, 116, 112, 115, 58, 47, 47, 116, 102, 46, 111, 112, 101, 110, 97, 105, 46,
    97, 122, 117, 114, 101, 46, 99, 111, 109>>

\* sample text
\*   "https://tf.openai.azure.com//"
HostSlashes ==
    <<104, 116, 116, 112, 115, 58, 47, 47, 116, 102, 46, 111, 112, 101, 110, 97, 105, 46,
    97, 122, 117, 114, 101, 46, 99, 111, 109, 47, 47>>

\* sample text
\*   "http://tf/"
HostHttp ==
    <<104, 116, 116, 112, 58, 47, 47, 116, 102, 47>>

\* sample text
\*   "k3y"
ApiKeyValue ==
    <<107, 51, 121>>

\* sample text
\*   "gpt-4"
DeploymentGpt4 ==
    <<103, 112, 116, 45, 52>>

\* sample text
\*   "gpt-35"
DeploymentOther ==
    <<103, 112, 116, 45, 51, 53>>

\* sample text
\*   "2024-02-15-preview"
ApiVersionDefault ==
    <<50, 48, 50, 52, 45, 48, 50, 45, 49, 53, 45, 112, 114, 101, 118, 105, 101, 119>>

\* sample text
\*   "old artifact"
OldFile ==
    <<111, 108, 100, 32, 97, 114, 116, 105, 102, 97, 99, 116>>

\* sample text
\*   "Error: no plan"
StderrText ==
    <<69, 114, 114, 111, 114, 58, 32, 110, 111, 32, 112, 108, 97, 110>>

\* sample text
\*   "quota"
ErrorBody ==
    <<113, 117, 111, 116, 97>>

(***************************************************************************)
(* Program constants.                                                      *)
(***************************************************************************)
\* line 186/187: the plan text limit
PlanLimit == 10000
\* line 137: the artifact size limit
FileLimit == 4000
\* line 140: the room the truncation keeps for the notice
NoticeReserve == 50

(***************************************************************************)
(* Bounds of the model.                                                    *)
(***************************************************************************)
\* the longest output of the date command, in characters before the newline
MaxDateLen == 29
\* the largest exit status of the planning tool
MaxReturnCode == 2
\* how far the longest plan text and the longest content exceed their limits
MaxExcess == 60

(***************************************************************************)
(* Python str operations, on sequences of code points.                     *)
(***************************************************************************)
Min(a, b) == IF a < b THEN a ELSE b
Max(a, b) == IF a > b THEN a ELSE b

\* s[:n], negative n counting from the end
SliceTo(s, n) ==
    IF n >= 0 THEN SubSeq(s, 1, Min(n, Len(s)))
              ELSE SubSeq(s, 1, Max(0, Len(s) + n))

\* s[n:] for n >= 0
SliceFrom(s, n) == SubSeq(s, Min(n, Len(s)) + 1, Len(s))

\* s.startswith(p)
StartsWith(s, p) == Len(p) <= Len(s) /\ SubSeq(s, 1, Len(p)) = p

\* s.endswith(p)
EndsWith(s, p) == Len(p) <= Len(s) /\ SubSeq(s, Len(s) - Len(p) + 1, Len(s)) = p

\* s.find(sub) + 1: the position of the first occurrence of a non-empty sub
\* in s, 0 when there is none
Find(s, sub) ==
    LET hits == {i \in 1..(Len(s) - Len(sub) + 1) :
                    s[i] = sub[1] /\ SubSeq(s, i, i + Len(sub) - 1) = sub}
    IN  IF hits = {} THEN 0 ELSE CHOOSE i \in hits : \A j \in hits : i <= j

\* sub in s
Contains(s, sub) == Find(s, sub) # 0

\* s.replace(old, ""): every occurrence removed, scanning left to right
RECURSIVE Remove(_, _)
Remove(s, old) ==
    LET i == Find(s, old)
    IN  IF i = 0 THEN s
        ELSE SubSeq(s, 1, i - 1) \o Remove(SliceFrom(s, i - 1 + Len(old)), old)

\* the ASCII white space str.strip() removes
Whitespace == {9, 10, 11, 12, 13, 32}

\* s.strip()
Strip(s) ==
    LET keep == {i \in 1..Len(s) : s[i] \notin Whitespace}
    IN  IF keep = {} THEN <<>>
        ELSE SubSeq(s, CHOOSE i \in keep : \A j \in keep : i <= j,
                       CHOOSE i \in keep : \A j \in keep : i >= j)

\* s.rstrip('/')
RStripSlash(s) ==
    LET keep == {i \in 1..Len(s) : s[i] # 47}
    IN  IF keep = {} THEN <<>>
        ELSE SubSeq(s, 1, CHOOSE i \in keep : \A j \in keep : i >= j)

\* s.lower() for the ASCII texts of the model
Lower(s) == [i \in 1..Len(s) |-> IF s[i] \in 65..90 THEN s[i] + 32 ELSE s[i]]

\* a Python dict with no keys
EmptyMapping == [k \in {} |-> <<>>]

\* d.get(k, default)
Get(d, k, default) == IF k \in DOMAIN d THEN d[k] ELSE default

\* one line written by print(): the fixed text and the interpolated value
Line(text, arg) == [text |-> text, arg |-> arg]

\* what a function call gives back: the exception it raised ("none" when it
\* returned), the value it returned and the lines it printed
Returned(value, out) == [raised |-> "none", value |-> value, out |-> out]
Raised(exc, out) == [raised |-> exc, value |-> <<>>, out |-> out]

(***************************************************************************)
(* The inputs of a run: the environment and what the outside world         *)
(* answers to the three external calls.                                    *)
(***************************************************************************)
\* os.environ: a variable that is not set is not a key
Environments ==
    { EmptyMapping,
      [AZURE_OPENAI_ENDPOINT |-> HostBare],
      [AZURE_OPENAI_API_KEY |-> <<>>, AZURE_OPENAI_ENDPOINT |-> HostBare],
      [AZURE_OPENAI_API_KEY |-> ApiKeyValue],
      [AZURE_OPENAI_API_KEY |-> ApiKeyValue, AZURE_OPENAI_ENDPOINT |-> <<>>,
       AZURE_OPENAI_DEPLOYMENT_NAME |-> DeploymentOther],
      [AZURE_OPENAI_API_KEY |-> ApiKeyValue, AZURE_OPENAI_ENDPOINT |-> HostBare],
      [AZURE_OPENAI_API_KEY |-> ApiKeyValue, AZURE_OPENAI_ENDPOINT |-> HostSlashes,
       AZURE_OPENAI_DEPLOYMENT_NAME |-> DeploymentOther],
      [AZURE_OPENAI_API_KEY |-> ApiKeyValue, AZURE_OPENAI_ENDPOINT |-> HostHttp,
       AZURE_OPENAI_API_VERSION |-> ApiVersionDefault] }

\* a plan text of n characters, no two neighbours equal
PlanText(n) == [i \in 1..n |-> 97 + (i % 23)]

PlanTexts ==
    { PlanText(n) : n \in {1, PlanLimit, PlanLimit + 1, PlanLimit + MaxExcess} }

\* what subprocess.run(['terraform', ...]) meets: the tool cannot be started,
\* or it ends with a return code, its stdout and its stderr
TerraformOutcomes ==
    { [launched |-> FALSE, returncode |-> 0, stdout |-> <<>>, stderr |-> <<>>] }
    \cup { [launched |-> TRUE, returncode |-> 0, stdout |-> s, stderr |-> <<>>] :
            s \in PlanTexts \cup {<<>>} }
    \cup { [launched |-> TRUE, returncode |-> c, stdout |-> s, stderr |-> StderrText] :
            c \in 1..MaxReturnCode, s \in {<<>>, PlanText(1)} }

\* the output lengths of the date command
DateLens == {0, 28, MaxDateLen}

\* a date of n characters: digits and colons
DateText(n) == [i \in 1..n |-> IF i % 3 = 0 THEN 58 ELSE 48 + (i % 10)]

\* what subprocess.run(['date']) meets: the command cannot be started, or it
\* ends and its stdout is a date and a newline (nothing when it failed)
DateOutcomes ==
    { [launched |-> FALSE, stdout |-> <<>>] }
    \cup { [launched |-> TRUE,
            stdout |-> IF n = 0 THEN <<>> ELSE DateText(n) \o <<10>>] : n \in DateLens }

\* what open() and the two f.write() calls meet
FileOutcomes == {"ok", "open_fails", "write_header_fails", "write_content_fails"}

\* a content of n lower-case letters with none of the keywords in it
Filler(n) == [i \in 1..n |-> 97 + (i % 3)]

\* content lengths around the room the header leaves: with the line feed
\* in front of it, the plain text is exactly as long as the room, or one more
FillerLens ==
    { FileLimit - Len(HeaderPrefix) - Len(HeaderSuffix) - d - 1 + k :
        d \in DateLens, k \in {0, 1} }
    \cup { FileLimit + MaxExcess }

\* message contents the service answers with
Contents ==
    { <<>>, TxtSecVuln, TxtCriticalUpper, TxtSevere, TxtHighRisk, TxtExposed,
      TxtClean, TxtNearMiss, TxtWithBanner }
    \cup { Filler(n) : n \in FillerLens }
    \cup { Filler(FileLimit) \o TxtExposed }

\* decoded response bodies: the empty mapping, an error body, the shapes
\* that lack a part of choices[0].message.content, and complete ones
Responses ==
    { EmptyMapping,
      [error |-> ErrorBody],
      [choices |-> <<>>],
      [choices |-> << [finish_reason |-> ErrorBody] >>],
      [choices |-> << [message |-> [role |-> ErrorBody]] >>] }
    \cup { [choices |-> << [message |-> [content |-> c]] >>] : c \in Contents }

\* what requests.post(...), raise_for_status() and json() meet: no response
\* at all, a response with an error status, a body that is not JSON (the
\* exception json() raises is a RequestException or not, by the installed
\* version of requests), or a decoded body
HttpReplies ==
    { [kind |-> "no_response", status |-> 0, text |-> <<>>, body |-> EmptyMapping] }
    \cup { [kind |-> "error_status", status |-> st, text |-> ErrorBody, body |-> EmptyMapping] :
            st \in {401, 500} }
    \cup { [kind |-> k, status |-> 200, text |-> ErrorBody, body |-> EmptyMapping] :
            k \in {"not_json_request_exception", "not_json_value_error"} }
    \cup { [kind |-> "json", status |-> 200, text |-> <<>>, body |-> b] : b \in Responses }

(***************************************************************************)
(* The functions of the script.                                            *)
(***************************************************************************)
\* get_terraform_plan_text without check=True: the return code is ignored
get_terraform_plan_text_Unchecked(child) ==
    IF ~child.launched
    THEN Raised("FileNotFoundError", <<>>)
    ELSE Returned(child.stdout, <<>>)

\* lines 14-28
get_terraform_plan_text(child) ==
    IF ~child.launched
    THEN Raised("FileNotFoundError", <<>>)
    ELSE IF child.returncode # 0
    THEN Returned(<<>>, << Line("Error generating plan text: ", <<>>),
                           Line("stderr: ", child.stderr) >>)
    ELSE Returned(child.stdout, <<>>)

\* lines 65-86: the request the function posts
Payload(plan_text, api_key) ==
    [ api_key  |-> api_key,
      messages |-> << [role |-> "system", content |-> <<>>],
                      [role |-> "user", content |-> plan_text] >> ]

\* lines 91-105
analyze_plan_with_azure_openai(reply) ==
    CASE reply.kind = "json" -> Returned(reply.body, <<>>)
      [] reply.kind = "no_response" ->
            Returned(EmptyMapping, << Line("Error calling Azure OpenAI API: ", <<>>) >>)
      [] reply.kind = "error_status" ->
            Returned(EmptyMapping, << Line("Error calling Azure OpenAI API: ", <<>>),
                                      Line("Response status: ", <<reply.status>>),
                                      Line("Response text: ", reply.text) >>)
      [] reply.kind = "not_json_request_exception" ->
            Returned(EmptyMapping, << Line("Error calling Azure OpenAI API: ", <<>>) >>)
      [] reply.kind = "not_json_value_error" ->
            Raised("ValueError", <<>>)

\* lines 107-126
format_analysis_output(analysis_response) ==
    IF DOMAIN analysis_response = {} \/ "choices" \notin DOMAIN analysis_response
    THEN Returned(FailureMarker, <<>>)
    ELSE IF Len(analysis_response.choices) = 0
    THEN Raised("IndexError", <<>>)
    ELSE IF "message" \notin DOMAIN analysis_response.choices[1]
    THEN Raised("KeyError", <<>>)
    ELSE IF "content" \notin DOMAIN analysis_response.choices[1].message
    THEN Raised("KeyError", <<>>)
    ELSE Returned(FormatPrefix \o analysis_response.choices[1].message.content
                               \o FormatSuffix, <<>>)

\* lines 132-133
PlainText(analysis) == Remove(Remove(analysis, SaveBanner), SaveFooter)

\* line 136
Header(date) == HeaderPrefix \o Strip(date.stdout) \o HeaderSuffix

\* the truncation without the room for the notice
Truncated_NoReserve(plain_text, header) ==
    LET max_content_length == FileLimit - Len(header)
    IN  IF Len(plain_text) > max_content_length
        THEN SliceTo(plain_text, max_content_length) \o TruncationNotice
        ELSE plain_text

\* lines 137-140
Truncated(plain_text, header) ==
    LET max_content_length == FileLimit - Len(header)
    IN  IF Len(plain_text) > max_content_length
        THEN SliceTo(plain_text, max_content_length - NoticeReserve) \o TruncationNotice
        ELSE plain_text

\* save_analysis_to_file catching only the failure to start the date command
save_analysis_to_file_Uncaught(analysis, date, io, old) ==
    LET failed == << Line("Error saving analysis to file: ", <<>>) >>
        header == Header(date)
    IN  IF ~date.launched THEN Returned(old, failed)
        ELSE CASE io = "open_fails" -> Raised("OSError", <<>>)
               [] io = "write_header_fails" -> Raised("OSError", <<>>)
               [] io = "write_content_fails" -> Raised("OSError", <<>>)
               [] io = "ok" ->
                    Returned(header \o Truncated(PlainText(analysis), header),
                             << Line("Analysis saved to terraform-analysis.txt (max 4000 characters)", <<>>) >>)

\* lines 128-147: the file after the call, given the file before it; the
\* value is the new file, every exception is caught at line 146
save_analysis_to_file(analysis, date, io, old) ==
    LET failed == << Line("Error saving analysis to file: ", <<>>) >>
        header == Header(date)
    IN  IF ~date.launched THEN Returned(old, failed)
        ELSE CASE io = "open_fails" -> Returned(old, failed)
               [] io = "write_header_fails" -> Returned(<<>>, failed)
               [] io = "write_content_fails" -> Returned(header, failed)
               [] io = "ok" ->
                    Returned(header \o Truncated(PlainText(analysis), header),
                             << Line("Analysis saved to terraform-analysis.txt (max 4000 characters)", <<>>) >>)

\* line 207
critical_keywords ==
    << KwCritical, KwSevere, KwHighRisk, KwSecurityVulnerability, KwExposed >>

\* the scan without .lower()
ScanText_CaseSensitive(analysis_response) ==
    LET choices == Get(analysis_response, "choices", << EmptyMapping >>)
    IN  IF Len(choices) = 0 THEN Raised("IndexError", <<>>)
        ELSE Returned(Get(Get(choices[1], "message", EmptyMapping), "content", <<>>), <<>>)

\* line 205
ScanText(analysis_response) ==
    LET choices == Get(analysis_response, "choices", << EmptyMapping >>)
    IN  IF Len(choices) = 0 THEN Raised("IndexError", <<>>)
        ELSE Returned(Lower(Get(Get(choices[1], "message", EmptyMapping),
                                "content", <<>>)), <<>>)

\* line 208
AnyKeyword(analysis_text) ==
    \E i \in 1..Len(critical_keywords) : Contains(analysis_text, critical_keywords[i])

\* lines 170-173
NormalizeEndpoint(e) ==
    LET withScheme == IF StartsWith(e, HttpsScheme) THEN e ELSE HttpsScheme \o e
    IN  IF EndsWith(withScheme, <<47>>) THEN RStripSlash(withScheme) ELSE withScheme

\* `os.getenv(name) is None`: an empty value counts as set
Unset_OnlyMissing(env, name) == name \notin DOMAIN env

\* `not os.getenv(name)`: the variable is unset or empty
Unset(env, name) == name \notin DOMAIN env \/ env[name] = <<>>

(***************************************************************************)
(* The run of main() as a state machine: one step per external call and    *)
(* the code of main() around it.                                           *)
(***************************************************************************)
VARIABLES
    environ,            \* os.environ
    pc,                 \* where main() is: the call it makes next, or "exited"
    endpoint,           \* main's local, normalised at lines 170-173
    plan_text,          \* main's local (lines 180-187)
    analysis_response,  \* main's local (line 191)
    formatted_analysis, \* main's local (line 198)
    file,               \* the content of terraform-analysis.txt
    stdout,             \* the lines printed so far
    exit_status,        \* the process exit status, -1 while main() runs
    uncaught,           \* the exception that left main(), "none" otherwise
    commands,           \* the child processes started so far, in order
    posts,              \* the payloads posted so far, in order
    opens,              \* how often the file was opened for writing
    observed            \* what the external calls answered in this run

vars == << environ, pc, endpoint, plan_text, analysis_response, formatted_analysis,
           file, stdout, exit_status, uncaught, commands, posts, opens, observed >>

\* nothing observed yet
NothingObserved ==
    [ terraform |-> [launched |-> FALSE, returncode |-> 0, stdout |-> <<>>, stderr |-> <<>>],
      reply     |-> [kind |-> "none", status |-> 0, text |-> <<>>, body |-> EmptyMapping],
      date      |-> [launched |-> FALSE, stdout |-> <<>>],
      io        |-> "none" ]

Init ==
    /\ environ \in Environments
    /\ pc = "main"
    /\ endpoint = <<>>
    /\ plan_text = <<>>
    /\ analysis_response = EmptyMapping
    /\ formatted_analysis = <<>>
    /\ file = OldFile
    /\ stdout = <<>>
    /\ exit_status = -1
    /\ uncaught = "none"
    /\ commands = <<>>
    /\ posts = <<>>
    /\ opens = 0
    /\ observed = NothingObserved

\* `return code` in main(), then sys.exit at line 215
Exit(code, out) ==
    /\ pc' = "exited"
    /\ exit_status' = code
    /\ uncaught' = "none"
    /\ stdout' = stdout \o out

\* an exception leaves main(): the interpreter ends with status 1
Crash(exc, out) ==
    /\ pc' = "exited"
    /\ exit_status' = 1
    /\ uncaught' = exc
    /\ stdout' = stdout \o out

\* main() goes on to its next call
Goto(next, out) ==
    /\ pc' = next
    /\ stdout' = stdout \o out
    /\ UNCHANGED << exit_status, uncaught >>

\* lines 152-177: read and validate the configuration
ReadConfiguration ==
    /\ pc = "main"
    /\ IF Unset(environ, "AZURE_OPENAI_API_KEY")
       THEN /\ Exit(0, << Line("##[error]AZURE_OPENAI_API_KEY environment variable not set", <<>>),
                          Line("##[warning]Skipping AI analysis. Set AZURE_OPENAI_API_KEY variable in pipeline.", <<>>) >>)
            /\ UNCHANGED endpoint
       ELSE IF Unset(environ, "AZURE_OPENAI_ENDPOINT")
       THEN /\ Exit(0, << Line("##[error]AZURE_OPENAI_ENDPOINT environment variable not set", <<>>),
                          Line("##[warning]Skipping AI analysis. Set AZURE_OPENAI_ENDPOINT variable in pipeline.", <<>>) >>)
            /\ UNCHANGED endpoint
       ELSE /\ endpoint' = NormalizeEndpoint(environ["AZURE_OPENAI_ENDPOINT"])
            /\ Goto("get_plan",
                    << Line("##[section]Analyzing Terraform Plan with Azure OpenAI...", <<>>),
                       Line("Using endpoint: ", endpoint'),
                       Line("Using deployment: ",
                            Get(environ, "AZURE_OPENAI_DEPLOYMENT_NAME", DeploymentGpt4)) >>)
    /\ UNCHANGED << environ, plan_text, analysis_response, formatted_analysis, file,
                    commands, posts, opens, observed >>

\* the truncation with >= in place of >
TruncatePlan_AtLimit(text) ==
    IF Len(text) >= PlanLimit
    THEN [text |-> SliceTo(text, PlanLimit) \o PlanTruncationMarker,
          out  |-> << Line("##[warning]Plan output truncated for AI analysis", <<>>) >>]
    ELSE [text |-> text, out |-> <<>>]

\* lines 186-188: the text main() forwards, and the warning it prints
TruncatePlan(text) ==
    IF Len(text) > PlanLimit
    THEN [text |-> SliceTo(text, PlanLimit) \o PlanTruncationMarker,
          out  |-> << Line("##[warning]Plan output truncated for AI analysis", <<>>) >>]
    ELSE [text |-> text, out |-> <<>>]

\* main() without the return at lines 181-183: an empty plan text is posted
GetPlan_KeepsGoing ==
    /\ pc = "get_plan"
    /\ \E child \in TerraformOutcomes :
        LET r == get_terraform_plan_text(child)
            t == TruncatePlan(r.value)
        IN  /\ commands' = Append(commands, "terraform")
            /\ observed' = [observed EXCEPT !.terraform = child]
            /\ IF r.raised # "none"
               THEN Crash(r.raised, r.out) /\ UNCHANGED plan_text
               ELSE /\ Goto("analyze", r.out \o t.out)
                    /\ plan_text' = t.text
    /\ UNCHANGED << environ, endpoint, analysis_response, formatted_analysis, file,
                    posts, opens >>

\* lines 180-188: run the planning tool, stop on an empty plan text,
\* truncate a long one
GetPlan ==
    /\ pc = "get_plan"
    /\ \E child \in TerraformOutcomes :
        LET r == get_terraform_plan_text(child)
            t == TruncatePlan(r.value)
        IN  /\ commands' = Append(commands, "terraform")
            /\ observed' = [observed EXCEPT !.terraform = child]
            /\ IF r.raised # "none"
               THEN Crash(r.raised, r.out) /\ UNCHANGED plan_text
               ELSE IF r.value = <<>>
               THEN /\ Exit(1, r.out \o << Line("##[error]Failed to generate Terraform plan text", <<>>) >>)
                    /\ plan_text' = r.value
               ELSE /\ Goto("analyze", r.out \o t.out)
                    /\ plan_text' = t.text
    /\ UNCHANGED << environ, endpoint, analysis_response, formatted_analysis, file,
                    posts, opens >>

\* lines 191-195: post the plan text, stop on an empty response
Analyze ==
    /\ pc = "analyze"
    /\ \E reply \in HttpReplies :
        LET r == analyze_plan_with_azure_openai(reply)
        IN  /\ posts' = Append(posts, Payload(plan_text, environ["AZURE_OPENAI_API_KEY"]))
            /\ observed' = [observed EXCEPT !.reply = reply]
            /\ IF r.raised # "none"
               THEN Crash(r.raised, r.out) /\ UNCHANGED analysis_response
               ELSE IF DOMAIN r.value = {}
               THEN /\ Exit(1, r.out \o << Line("##[error]Failed to get analysis from Azure OpenAI", <<>>) >>)
                    /\ analysis_response' = r.value
               ELSE /\ Goto("format", r.out)
                    /\ analysis_response' = r.value
    /\ UNCHANGED << environ, endpoint, plan_text, formatted_analysis, file,
                    commands, opens >>

\* lines 198-199: format the response and print the report
Format ==
    /\ pc = "format"
    /\ LET r == format_analysis_output(analysis_response)
       IN  IF r.raised # "none"
           THEN Crash(r.raised, <<>>) /\ UNCHANGED formatted_analysis
           ELSE /\ formatted_analysis' = r.value
                /\ Goto("save", << Line("", r.value) >>)
    /\ UNCHANGED << environ, endpoint, plan_text, analysis_response, file,
                    commands, posts, opens, observed >>

\* line 202: write the artifact
Save ==
    /\ pc = "save"
    /\ \E date \in DateOutcomes, io \in FileOutcomes :
        LET r == save_analysis_to_file(formatted_analysis, date, io, file)
        IN  /\ commands' = Append(commands, "date")
            /\ observed' = [observed EXCEPT !.date = date,
                                            !.io = IF date.launched THEN io ELSE "none"]
            /\ opens' = IF date.launched /\ io # "open_fails" THEN opens + 1 ELSE opens
            /\ IF r.raised # "none"
               THEN Crash(r.raised, r.out) /\ UNCHANGED file
               ELSE Goto("scan", r.out) /\ file' = r.value
    /\ UNCHANGED << environ, endpoint, plan_text, analysis_response, formatted_analysis,
                    posts >>

\* lines 205-212: scan the content for the keywords, print the completion
\* banner, return 0
Scan ==
    /\ pc = "scan"
    /\ LET r == ScanText(analysis_response)
       IN  IF r.raised # "none"
           THEN Crash(r.raised, <<>>)
           ELSE Exit(0, (IF AnyKeyword(r.value)
                         THEN << Line("##[warning]Critical issues detected in analysis. Please review carefully!", <<>>) >>
                         ELSE <<>>)
                        \o << Line("##[section]AI Analysis Complete", <<>>) >>)
    /\ UNCHANGED << environ, endpoint, plan_text, analysis_response, formatted_analysis,
                    file, commands, posts, opens, observed >>

Next ==
    \/ ReadConfiguration
    \/ GetPlan
    \/ Analyze
    \/ Format
    \/ Save
    \/ Scan

Spec == Init /\ [][Next]_vars

(***************************************************************************)
(* Properties.                                                             *)
(***************************************************************************)
\* the text was printed
Printed(text) == \E i \in 1..Len(stdout) : stdout[i].text = text

\* the formatted report was printed (line 199)
ReportPrinted ==
    \E i \in 1..Len(stdout) : stdout[i].text = "" /\ stdout[i].arg = formatted_analysis

\* format_analysis_output has been called in this run
FormatCalled ==
    \/ pc \in {"save", "scan"}
    \/ pc = "exited" /\ observed.reply.kind = "json" /\ DOMAIN analysis_response # {}

\* the response has no 'choices' key
LacksChoices(resp) == "choices" \notin DOMAIN resp

\* the response's 'choices' is an empty list
EmptyChoices(resp) == "choices" \in DOMAIN resp /\ Len(resp.choices) = 0

\* the path choices[0].message.content is absent from the response
PathAbsent(resp) ==
    \/ LacksChoices(resp)
    \/ EmptyChoices(resp)
    \/ "message" \notin DOMAIN resp.choices[1]
    \/ "content" \notin DOMAIN resp.choices[1].message

\* C1: format_analysis_output never raises: for a response without a
\* 'choices' key, and for one whose 'choices' is an empty list, it returns
\* the failure marker.
C1_MarkerNotException ==
    (FormatCalled /\ (LacksChoices(analysis_response) \/ EmptyChoices(analysis_response)))
        => (uncaught = "none" /\ formatted_analysis = FailureMarker)

\* C2: with the configuration set and a non-empty plan text, every non-empty
\* response in which choices[0].message.content is absent makes main print
\* the failure marker as the report and end with exit status 0.
C2_AbsentPathExitsZero ==
    (pc = "exited" /\ FormatCalled /\ PathAbsent(analysis_response))
        => (exit_status = 0 /\ formatted_analysis = FailureMarker /\ ReportPrinted)

\* C3: no exception crosses an external-call boundary: whatever the planning
\* tool, the HTTP call and the decoding of its body, the date command and the
\* file write do, the three functions return, so main never ends by an
\* exception of theirs.
C3_NothingRaisesPastTheCall ==
    uncaught \notin {"FileNotFoundError", "ValueError", "OSError"}

\* the artifact was written to the end in this run
FileWritten == pc \in {"scan", "exited"} /\ observed.io = "ok"

\* the plain content of the report, and the header of this run's artifact
PlainContent == Remove(Remove(formatted_analysis, SaveBanner), SaveFooter)
ArtifactHeader == HeaderPrefix \o Strip(observed.date.stdout) \o HeaderSuffix

\* C4: when the plain content of the report is longer than 4000 minus the
\* header length, the file written is at most 4000 characters long and ends
\* with the truncation notice; otherwise the file is the header followed by
\* the untruncated plain content, and is at most 4000 characters long too.
C4_ArtifactWithinLimit ==
    FileWritten =>
        /\ Len(file) <= 4000
        /\ IF Len(PlainContent) > 4000 - Len(ArtifactHeader)
           THEN /\ StartsWith(file, ArtifactHeader)
                /\ EndsWith(file, TruncationNotice)
           ELSE file = ArtifactHeader \o PlainContent

\* a run in which the plain content did not fit and was truncated
C4_Witness ==
    /\ FileWritten
    /\ Len(PlainContent) > 4000 - Len(ArtifactHeader)
    /\ EndsWith(file, TruncationNotice)

\* the credential or the endpoint is unset or empty
ConfigurationMissing ==
    \/ "AZURE_OPENAI_API_KEY" \notin DOMAIN environ
    \/ environ["AZURE_OPENAI_API_KEY"] = <<>>
    \/ "AZURE_OPENAI_ENDPOINT" \notin DOMAIN environ
    \/ environ["AZURE_OPENAI_ENDPOINT"] = <<>>

\* C5: when the credential or the endpoint is unset or empty, main ends with
\* exit status 0 whatever the other variables are, and no HTTP request is
\* made (main makes no external call at all, it goes from its start to its
\* exit).
C5_MissingConfigurationSkips ==
    ConfigurationMissing =>
        /\ posts = <<>>
        /\ commands = <<>>
        /\ pc \in {"main", "exited"}
        /\ pc = "exited" => (exit_status = 0 /\ uncaught = "none")

\* a run that ended because the endpoint is empty while the credential and
\* another variable are set
C5_Witness ==
    /\ pc = "exited"
    /\ exit_status = 0
    /\ "AZURE_OPENAI_API_KEY" \in DOMAIN environ
    /\ environ["AZURE_OPENAI_API_KEY"] # <<>>
    /\ "AZURE_OPENAI_ENDPOINT" \in DOMAIN environ
    /\ environ["AZURE_OPENAI_ENDPOINT"] = <<>>
    /\ "AZURE_OPENAI_DEPLOYMENT_NAME" \in DOMAIN environ

\* the planning tool ran in this run and ended with a non-zero return code
PlanningToolFailed ==
    /\ commands # <<>>
    /\ observed.terraform.launched
    /\ observed.terraform.returncode # 0

\* C6: for every non-zero return code of the planning tool,
\* get_terraform_plan_text returns the empty string and main ends with exit
\* status 1.
C6_FailedPlanExitsOne ==
    PlanningToolFailed =>
        /\ plan_text = <<>>
        /\ pc = "exited"
        /\ exit_status = 1
        /\ uncaught = "none"
        /\ Printed("##[error]Failed to generate Terraform plan text")

\* the tool ended with the largest return code and had written to stdout
C6_Witness ==
    /\ PlanningToolFailed
    /\ observed.terraform.returncode = MaxReturnCode
    /\ observed.terraform.stdout # <<>>
    /\ exit_status = 1

\* the plan text of the first payload posted
PostedPlan == posts[1].messages[2].content

\* C7: a plan text longer than 10,000 characters is posted as its first
\* 10,000 characters followed by the truncation marker, and the truncation
\* warning is printed; a non-empty plan text of at most 10,000 characters is
\* posted unchanged and no truncation warning is printed.
C7_PlanTruncation ==
    posts # <<>> =>
        LET raw == observed.terraform.stdout
        IN  IF Len(raw) > 10000
            THEN /\ PostedPlan = SubSeq(raw, 1, 10000) \o PlanTruncationMarker
                 /\ Printed("##[warning]Plan output truncated for AI analysis")
            ELSE /\ PostedPlan = raw
                 /\ ~Printed("##[warning]Plan output truncated for AI analysis")

\* a plan text one character over the limit was posted truncated
C7_Witness ==
    /\ posts # <<>>
    /\ Len(observed.terraform.stdout) = 10001
    /\ Len(PostedPlan) = 10000 + Len(PlanTruncationMarker)

\* the keyword scan was done in this run
ScanDone == pc = "exited" /\ Len(commands) = 2

\* the content the scan reads: the message content, "" without 'choices'
ResponseContent ==
    IF "choices" \in DOMAIN analysis_response
    THEN analysis_response.choices[1].message.content
    ELSE <<>>

\* sub occurs in s
Occurs(sub, s) ==
    \E i \in 1..(Len(s) - Len(sub) + 1) :
        s[i] = sub[1] /\ \A j \in 2..Len(sub) : s[i + j - 1] = sub[j]

\* an upper-case letter made lower-case
LowerCased(s) == [i \in 1..Len(s) |-> IF 65 <= s[i] /\ s[i] <= 90 THEN s[i] + 32 ELSE s[i]]

\* C8: in a run that reaches the keyword scan, the critical-issue warning is
\* printed exactly when the lower-cased content contains one of 'critical',
\* 'severe', 'high risk', 'security vulnerability', 'exposed'.
C8_WarningIffKeyword ==
    ScanDone =>
        LET lowered == LowerCased(ResponseContent)
        IN  Printed("##[warning]Critical issues detected in analysis. Please review carefully!")
            <=> \E k \in {KwCritical, KwSevere, KwHighRisk, KwSecurityVulnerability, KwExposed} :
                    Occurs(k, lowered)

\* the content with 'Security Vulnerability' in capitals got the warning
C8_Witness ==
    /\ ScanDone
    /\ ResponseContent = TxtSecVuln
    /\ Printed("##[warning]Critical issues detected in analysis. Please review carefully!")

\* save_analysis_to_file was called in this run
SaveCalled == Len(commands) = 2

\* C9: a failure while writing the artifact does not change the outcome:
\* whether the write succeeds or fails, main goes on to the keyword scan,
\* prints the completion banner and ends with exit status 0.
C9_SaveFailureNotFatal ==
    SaveCalled =>
        /\ uncaught = "none"
        /\ pc \in {"scan", "exited"}
        /\ pc = "exited" => (exit_status = 0 /\ Printed("##[section]AI Analysis Complete"))

\* a run that ended after the write of the content failed
C9_Witness ==
    /\ pc = "exited"
    /\ observed.io = "write_content_fails"
    /\ Printed("Error saving analysis to file: ")
    /\ exit_status = 0

\* how often the command was started
Started(cmd) == Cardinality({i \in 1..Len(commands) : commands[i] = cmd})

\* C10: the external effects happen at most once each and in a fixed order:
\* the planning tool runs only with credential and endpoint present, the
\* POST is sent only after the tool returned a non-empty plan text, the file
\* is written only after a non-empty response came back and the report was
\* printed; a run that ends with exit status 1, or with 0 for a missing
\* configuration, leaves the file as it was.
C10_EffectsOnceInOrder ==
    /\ Started("terraform") <= 1
    /\ Len(posts) <= 1
    /\ opens <= 1
    /\ Started("terraform") = 1 => ~ConfigurationMissing
    /\ Len(posts) = 1 =>
          /\ commands[1] = "terraform"
          /\ observed.terraform.launched
          /\ observed.terraform.stdout # <<>>
          /\ PostedPlan # <<>>
    /\ (opens = 1 \/ file # OldFile) =>
          /\ Len(posts) = 1
          /\ observed.reply.kind = "json"
          /\ DOMAIN analysis_response # {}
          /\ ReportPrinted
    /\ (pc = "exited" /\ (exit_status = 1 \/ ConfigurationMissing)) =>
          (file = OldFile /\ opens = 0)

\* a run that made all three external effects, and one file write
C10_Witness ==
    /\ pc = "exited"
    /\ Started("terraform") = 1
    /\ Len(posts) = 1
    /\ opens = 1
    /\ file # OldFile
====
